---- MODULE Spec2Model ----
(***************************************************************************)
(* Search interaction controller of the publication search front end:      *)
(* SearchComponent (state, debounce effect, searchPublications, the event  *)
(* handlers and the mount / debouncedQuery effects), the Pagination        *)
(* component and ApiService.searchPublications.                            *)
(*                                                                         *)
(* One action is one browser task: an event handler, a timer callback or   *)
(* the continuation of an awaited fetch, together with the re-render it    *)
(* causes and the effects whose dependencies changed in that render.       *)
(***************************************************************************)
EXTENDS Integers, Sequences, FiniteSets, TLC

(* ----------------------------- bounds --------------------------------- *)

\* Largest number of search requests outstanding at once in the model.
MaxInflight == 2

\* Cap of the history counter of live-query changes.
MaxBurst == 3

\* Largest totalPages given to Pagination on its own.
MaxTotalPages == 14

\* Longest result page given to the local sort on its own.
MaxSortLen == 3

\* Largest number of classification calls, and of model-info calls,
\* outstanding at once.
MaxCalls == 2

(* ------------------------- program constants -------------------------- *)

\* useState(10): the page size sent with every request.
pageSize == 10

\* JS null for the error state.
Null == "null"

\* The "..." entry of getVisiblePages (page numbers are >= 1).
Ellipsis == 0

\* Suggestions offered by QuickSearch (a subset of the ten in the source).
suggestions == {"machine learning"}

\* Texts the user may have in the input box.
KeyValues == {"", "machine learning"}

\* Wall-clock durations (seconds) a request may take.
Durations == {1}

(* --------------------- the remote search service ---------------------- *)

\* Publications matching a query, in the server's relevance order.
Corpus(q) ==
  IF q = "" THEN [i \in 1..12 |-> i]
  ELSE IF q = "machine learning" THEN [i \in 1..3 |-> 5 * i]
  ELSE << >>

CeilDiv(a, b) == (a + b - 1) \div b

Min(a, b) == IF a < b THEN a ELSE b

Max(a, b) == IF a > b THEN a ELSE b

\* GET /search?query&page&size -> {results, total, page, size, total_pages}
SearchResponse(q, page, size) ==
  LET all   == Corpus(q)
      total == Len(all)
      lo    == (page - 1) * size + 1
      hi    == Min(page * size, total)
  IN [results     |-> IF lo > hi THEN << >> ELSE SubSeq(all, lo, hi),
      total       |-> total,
      page        |-> page,
      size        |-> size,
      total_pages |-> CeilDiv(total, size)]

\* Ways a fetch can end: 2xx with a JSON body, or one of the failures.
Outcomes == {"ok", "http", "network", "decode"}

\* err.message of the Error that reaches the catch block.
ErrorMessage(outcome) ==
  IF outcome = "http" THEN "HTTP error! status: 500"
  ELSE IF outcome = "network" THEN "Failed to fetch"
  ELSE "Unexpected token < in JSON"

(* --------------------------- publications ----------------------------- *)

\* Publication.score
Score(p) == IF p = 2 THEN 99 ELSE 100 - p

\* Publication.title as character codes (65..90 upper, 97..122 lower case).
Title(p) == IF p % 2 = 0 THEN <<65 + (p % 5), 97 + (p \div 5)>>
            ELSE <<97 + (p % 5), 97 + (p \div 5)>>

\* Publication.published_date as <<year, month, day>>; << >> is "".
PublishedDate(p) == <<2000 + (p % 4), 1 + (p % 12), 1 + (p % 28)>>

\* String.prototype.toLowerCase on character codes.
toLowerCase(s) == [i \in 1..Len(s) |-> IF s[i] >= 65 /\ s[i] <= 90 THEN s[i] + 32 ELSE s[i]]

\* new Date(s).getTime(): a timestamp, or NaN (modelled as -1) for "".
NaN == -1

getTime(d) == IF Len(d) # 3 THEN NaN ELSE (d[1] * 12 + d[2]) * 31 + d[3]

\* JS a > b on strings: lexicographic by code unit.
RECURSIVE StrGreater(_, _)
StrGreater(a, b) ==
  IF Len(a) = 0 THEN FALSE
  ELSE IF Len(b) = 0 THEN TRUE
  ELSE IF a[1] # b[1] THEN a[1] > b[1]
  ELSE StrGreater(Tail(a), Tail(b))

\* JS a > b on numbers: false when either side is NaN.
NumGreater(a, b) == a # NaN /\ b # NaN /\ a > b

\* aVal > bVal for the key chosen by the switch in handleSortChange.
KeyGreater(a, b, by) ==
  IF by = "published_date"
    THEN NumGreater(getTime(PublishedDate(a)), getTime(PublishedDate(b)))
  ELSE IF by = "title"
    THEN StrGreater(toLowerCase(Title(a)), toLowerCase(Title(b)))
  ELSE NumGreater(Score(a), Score(b))

\* Mutant of compare: the direction is ignored (always descending).
compareDescOnly(a, b, by, ord) ==
  IF KeyGreater(b, a, by) THEN 1 ELSE -1

\* The comparator passed to Array.prototype.sort: never returns 0.
compare(a, b, by, ord) ==
  IF ord = "asc"
    THEN (IF KeyGreater(a, b, by) THEN 1 ELSE -1)
    ELSE (IF KeyGreater(b, a, by) THEN 1 ELSE -1)

InsertAt(s, k, x) == SubSeq(s, 1, k - 1) \o <<x>> \o SubSeq(s, k, Len(s))

\* Positions at which x may stand in the ordered sequence s: the comparator
\* puts nothing before it that must come after, nothing after it that must
\* come before.
Slots(s, x, by, ord) ==
  {k \in 1..(Len(s) + 1) :
     /\ \A i \in 1..(k - 1) : compare(s[i], x, by, ord) # 1
     /\ \A i \in k..Len(s) : compare(x, s[i], by, ord) # 1}

\* [...results].sort(comparator).  The comparator answers -1 for both orders
\* of two equal keys, so it is not a consistent comparator and the order of
\* equal keys is implementation-defined: every order of them is an outcome.
RECURSIVE sortOutcomes(_, _, _)
sortOutcomes(s, by, ord) ==
  IF s = << >> THEN { << >> }
  ELSE UNION { { InsertAt(o, k, Head(s)) : k \in Slots(o, Head(s), by, ord) }
               : o \in sortOutcomes(Tail(s), by, ord) }

(* ---------------------------- pagination ------------------------------ *)

\* Mutant of getVisiblePages: the ellipsis form starts one page late.
getVisiblePagesLate(currentPage_, totalPages_) ==
  IF ~(totalPages_ > 8)
    THEN [i \in 1..totalPages_ |-> i]
  ELSE IF currentPage_ <= 4
    THEN <<1, 2, 3, 4, 5, Ellipsis, totalPages_>>
  ELSE IF currentPage_ >= totalPages_ - 3
    THEN <<1, Ellipsis, totalPages_ - 4, totalPages_ - 3, totalPages_ - 2,
           totalPages_ - 1, totalPages_>>
  ELSE <<1, Ellipsis, currentPage_ - 1, currentPage_, currentPage_ + 1,
         Ellipsis, totalPages_>>

\* Mutant of getVisiblePages: the tail form is used one page early.
getVisiblePagesEarlyTail(currentPage_, totalPages_) ==
  IF ~(totalPages_ > 7)
    THEN [i \in 1..totalPages_ |-> i]
  ELSE IF currentPage_ <= 4
    THEN <<1, 2, 3, 4, 5, Ellipsis, totalPages_>>
  ELSE IF currentPage_ >= totalPages_ - 4
    THEN <<1, Ellipsis, totalPages_ - 4, totalPages_ - 3, totalPages_ - 2,
           totalPages_ - 1, totalPages_>>
  ELSE <<1, Ellipsis, currentPage_ - 1, currentPage_, currentPage_ + 1,
         Ellipsis, totalPages_>>

\* Mutant of getVisiblePages: beyond 7 pages the window around the
\* current page is always used, without the forms for the two ends.
getVisiblePagesWindowOnly(currentPage_, totalPages_) ==
  IF ~(totalPages_ > 7)
    THEN [i \in 1..totalPages_ |-> i]
  ELSE <<1, Ellipsis, currentPage_ - 1, currentPage_, currentPage_ + 1,
         Ellipsis, totalPages_>>

\* Pagination.getVisiblePages
getVisiblePages(currentPage_, totalPages_) ==
  IF ~(totalPages_ > 7)
    THEN [i \in 1..totalPages_ |-> i]
  ELSE IF currentPage_ <= 4
    THEN <<1, 2, 3, 4, 5, Ellipsis, totalPages_>>
  ELSE IF currentPage_ >= totalPages_ - 3
    THEN <<1, Ellipsis, totalPages_ - 4, totalPages_ - 3, totalPages_ - 2,
           totalPages_ - 1, totalPages_>>
  ELSE <<1, Ellipsis, currentPage_ - 1, currentPage_, currentPage_ + 1,
         Ellipsis, totalPages_>>

\* Pages the enabled buttons of Pagination pass to onPageChange.
PageTargets(currentPage_, totalPages_) ==
  LET vis == getVisiblePages(currentPage_, totalPages_)
  IN  {vis[i] : i \in {j \in 1..Len(vis) : vis[j] # Ellipsis}}
      \cup (IF currentPage_ = 1 THEN {} ELSE {currentPage_ - 1})
      \cup (IF currentPage_ = totalPages_ THEN {} ELSE {currentPage_ + 1})

(* ---------------------------- SearchStats ----------------------------- *)

\* SearchStats: startResult, the first number of "Showing a-b of n".
startResult(currentPage_, pageSize_) == (currentPage_ - 1) * pageSize_ + 1

\* Mutant of endResult: the last page is not cut off at totalResults.
endResultUncut(currentPage_, pageSize_, totalResults_) ==
  currentPage_ * pageSize_

\* SearchStats: endResult, the second number of "Showing a-b of n".
endResult(currentPage_, pageSize_, totalResults_) ==
  Min(currentPage_ * pageSize_, totalResults_)

(* ------------------------------- state -------------------------------- *)

VARIABLES
  mounted,        \* the component's effects have run for the first time
  query,          \* useState("")  live text of the input
  debouncedQuery, \* useState("")
  results,        \* useState([])  sequence of publications
  loading,        \* useState(false)
  currentPage,    \* useState(1)
  totalPages,     \* useState(0)
  totalResults,   \* useState(0)
  error,          \* useState(null)
  searchTime,     \* useState(0)
  sortBy,         \* useState("relevance")
  sortOrder,      \* useState("desc")
  debounceRef,    \* useRef(null): id of the timer armed last, 0 for null
  timers,         \* timers of the event loop that have not fired or been cleared
  inflight,       \* searchPublications calls awaiting their fetch, oldest first
  latestIssued,   \* history: <<query, page>> of the request issued last
  accepted,       \* history: results of the last response for the latest <<query, page>>
  emissions,      \* history: debounce callbacks run since the live query last changed
  burst,          \* history: changes of the live query since the last callback (capped)
  cls,            \* state of DocumentClassification (a record, see ClsInit)
  probe           \* history: inputs and earlier outputs of the operation under study

vars == <<mounted, query, debouncedQuery, results, loading, currentPage,
          totalPages, totalResults, error, searchTime, sortBy, sortOrder,
          debounceRef, timers, inflight, latestIssued, accepted,
          emissions, burst, cls, probe>>

\* The state of SearchComponent alone.
searchVars == <<mounted, query, debouncedQuery, results, loading, currentPage,
                totalPages, totalResults, error, searchTime, sortBy, sortOrder,
                debounceRef, timers, inflight, latestIssued, accepted,
                emissions, burst>>

\* No operation is under study.
NoProbe == [kind |-> "none"]

\* SearchComponent after its useState calls, before its effects have run.
SearchInit ==
  /\ mounted = FALSE
  /\ query = ""
  /\ debouncedQuery = ""
  /\ results = << >>
  /\ loading = FALSE
  /\ currentPage = 1
  /\ totalPages = 0
  /\ totalResults = 0
  /\ error = Null
  /\ searchTime = 0
  /\ sortBy = "relevance"
  /\ sortOrder = "desc"
  /\ debounceRef = 0
  /\ timers = {}
  /\ inflight = << >>
  /\ latestIssued = <<"", 1>>
  /\ accepted = << >>
  /\ emissions = 0
  /\ burst = 0

\* JS null for the result and modelInfo states of DocumentClassification.
NullObject == [kind |-> "null"]

\* DocumentClassification after its useState calls; classifyCalls and
\* infoCalls are the handleClassify / loadModelInfo calls awaiting their fetch.
ClsInit ==
  [mounted       |-> FALSE,
   text          |-> << >>,
   result        |-> NullObject,
   loading       |-> FALSE,
   error         |-> Null,
   modelType     |-> "naive_bayes",
   modelInfo     |-> NullObject,
   classifyCalls |-> << >>,
   infoCalls     |-> << >>]

Init ==
  /\ SearchInit
  /\ cls = ClsInit
  /\ probe = NoProbe

(* ------------------------------ timers -------------------------------- *)

\* Mutant of clearTimeout: the timer is left pending.
clearTimeoutNoop(ts, id) == ts

\* clearTimeout(id): a no-op for an id that is not pending.
clearTimeout(ts, id) == {t \in ts : t.id # id}

\* setTimeout returns an id no pending timer has.
setTimeoutId(ts, ref) ==
  CHOOSE n \in 1..(Cardinality(ts) + 2) : n # ref /\ \A t \in ts : t.id # n

\* Mutant of DebounceEffect: the callback closes over the query of the
\* previous render (a stale closure), the text of the timer it replaces.
DebounceEffectStale(ts, ref, q) ==
  LET afterCleanup == clearTimeout(ts, ref)
      afterGuard   == clearTimeout(afterCleanup, ref)
      id           == setTimeoutId(afterGuard, ref)
      old          == {t \in ts : t.id = ref}
      value        == IF old = {} THEN q ELSE (CHOOSE t \in old : TRUE).value
  IN  [timers |-> afterGuard \cup {[id |-> id, value |-> value]}, ref |-> id]

\* The [query] effect: cleanup of the previous run, then the body.  Both
\* clear debounceRef.current; the body arms a timer that closes over q.
DebounceEffect(ts, ref, q) ==
  LET afterCleanup == clearTimeout(ts, ref)
      afterGuard   == clearTimeout(afterCleanup, ref)
      id           == setTimeoutId(afterGuard, ref)
  IN  [timers |-> afterGuard \cup {[id |-> id, value |-> q]}, ref |-> id]

(* ----------------------- searchPublications --------------------------- *)

\* The synchronous part of searchPublications(searchQuery, page), up to
\* the await: setLoading(true), setError(null), fetch issued.
Request(searchQuery, page) ==
  [query |-> searchQuery, page |-> page, size |-> pageSize, newerApplied |-> FALSE]

\* qs: the requests issued in this task, in call order.
Issue(qs) ==
  /\ Len(inflight) + Len(qs) <= MaxInflight
  /\ inflight' = inflight \o qs
  /\ loading' = TRUE
  /\ error' = Null
  /\ latestIssued' = <<qs[Len(qs)].query, qs[Len(qs)].page>>

\* Mutant of Settle: the try block sorts the response by the sort spec in
\* force before setResults.
SettleSorting(i, outcome, d) ==
  LET r    == inflight[i]
      data == SearchResponse(r.query, r.page, r.size)
      rest == [j \in 1..(Len(inflight) - 1) |->
                 IF j < i
                   THEN [inflight[j] EXCEPT !.newerApplied =
                           @ \/ (outcome = "ok" /\ <<r.query, r.page>>
                                     # <<inflight[j].query, inflight[j].page>>)]
                   ELSE inflight[j + 1]]
      relevant == <<r.query, r.page>> = latestIssued
  IN  /\ inflight' = rest
      /\ IF outcome = "ok"
           THEN /\ searchTime' = d
                /\ results' \in sortOutcomes(data.results, sortBy, sortOrder)
                /\ totalPages' = data.total_pages
                /\ totalResults' = data.total
                /\ currentPage' = data.page
                /\ error' = error
           ELSE /\ error' = ErrorMessage(outcome)
                /\ results' = << >>
                /\ UNCHANGED <<searchTime, totalPages, totalResults, currentPage>>
      /\ loading' = FALSE
      /\ latestIssued' = latestIssued
      /\ accepted' = IF relevant
                       THEN (IF outcome = "ok" THEN data.results ELSE << >>)
                       ELSE accepted

\* Mutant of Settle: the catch block also zeroes the totals
\* (setTotalPages(0), setTotalResults(0)).
SettleResetsTotals(i, outcome, d) ==
  LET r    == inflight[i]
      data == SearchResponse(r.query, r.page, r.size)
      rest == [j \in 1..(Len(inflight) - 1) |->
                 IF j < i
                   THEN [inflight[j] EXCEPT !.newerApplied =
                           @ \/ (outcome = "ok" /\ <<r.query, r.page>>
                                     # <<inflight[j].query, inflight[j].page>>)]
                   ELSE inflight[j + 1]]
      relevant == <<r.query, r.page>> = latestIssued
  IN  /\ inflight' = rest
      /\ IF outcome = "ok"
           THEN /\ searchTime' = d
                /\ results' = data.results
                /\ totalPages' = data.total_pages
                /\ totalResults' = data.total
                /\ currentPage' = data.page
                /\ error' = error
           ELSE /\ error' = ErrorMessage(outcome)
                /\ results' = << >>
                /\ totalPages' = 0 /\ totalResults' = 0
                /\ UNCHANGED <<searchTime, currentPage>>
      /\ loading' = FALSE
      /\ latestIssued' = latestIssued
      /\ accepted' = IF relevant
                       THEN (IF outcome = "ok" THEN data.results ELSE << >>)
                       ELSE accepted

\* Mutant of Settle: the catch block omits setResults([]).
SettleKeepsResults(i, outcome, d) ==
  LET r    == inflight[i]
      data == SearchResponse(r.query, r.page, r.size)
      rest == [j \in 1..(Len(inflight) - 1) |->
                 IF j < i
                   THEN [inflight[j] EXCEPT !.newerApplied =
                           @ \/ (outcome = "ok" /\ <<r.query, r.page>>
                                     # <<inflight[j].query, inflight[j].page>>)]
                   ELSE inflight[j + 1]]
      relevant == <<r.query, r.page>> = latestIssued
  IN  /\ inflight' = rest
      /\ IF outcome = "ok"
           THEN /\ searchTime' = d
                /\ results' = data.results
                /\ totalPages' = data.total_pages
                /\ totalResults' = data.total
                /\ currentPage' = data.page
                /\ error' = error
           ELSE /\ error' = ErrorMessage(outcome)
                /\ results' = results
                /\ UNCHANGED <<searchTime, totalPages, totalResults, currentPage>>
      /\ loading' = FALSE
      /\ latestIssued' = latestIssued
      /\ accepted' = IF relevant
                       THEN (IF outcome = "ok" THEN data.results ELSE << >>)
                       ELSE accepted

\* Mutant of Settle: the catch block calls searchPublications again with
\* the same arguments.
SettleRetrying(i, outcome, d) ==
  LET r    == inflight[i]
      data == SearchResponse(r.query, r.page, r.size)
      rest == [j \in 1..(Len(inflight) - 1) |->
                 IF j < i
                   THEN [inflight[j] EXCEPT !.newerApplied =
                           @ \/ (outcome = "ok" /\ <<r.query, r.page>>
                                     # <<inflight[j].query, inflight[j].page>>)]
                   ELSE inflight[j + 1]]
      relevant == <<r.query, r.page>> = latestIssued
  IN  /\ inflight' = IF outcome = "ok" THEN rest ELSE Append(rest, r)
      /\ IF outcome = "ok"
           THEN /\ searchTime' = d
                /\ results' = data.results
                /\ totalPages' = data.total_pages
                /\ totalResults' = data.total
                /\ currentPage' = data.page
                /\ error' = error
           ELSE /\ error' = ErrorMessage(outcome)
                /\ results' = << >>
                /\ UNCHANGED <<searchTime, totalPages, totalResults, currentPage>>
      /\ loading' = FALSE
      /\ latestIssued' = latestIssued
      /\ accepted' = IF relevant
                       THEN (IF outcome = "ok" THEN data.results ELSE << >>)
                       ELSE accepted

\* The continuation of searchPublications after the await, for the i-th
\* outstanding call: the try block's tail on success, the catch block on
\* failure, then finally.
Settle(i, outcome, d) ==
  LET r    == inflight[i]
      data == SearchResponse(r.query, r.page, r.size)
      rest == [j \in 1..(Len(inflight) - 1) |->
                 IF j < i
                   THEN [inflight[j] EXCEPT !.newerApplied =
                           @ \/ (outcome = "ok" /\ <<r.query, r.page>>
                                     # <<inflight[j].query, inflight[j].page>>)]
                   ELSE inflight[j + 1]]
      relevant == <<r.query, r.page>> = latestIssued
  IN  /\ inflight' = rest
      /\ IF outcome = "ok"
           THEN /\ searchTime' = d
                /\ results' = data.results
                /\ totalPages' = data.total_pages
                /\ totalResults' = data.total
                /\ currentPage' = data.page
                /\ error' = error
           ELSE /\ error' = ErrorMessage(outcome)
                /\ results' = << >>
                /\ UNCHANGED <<searchTime, totalPages, totalResults, currentPage>>
      /\ loading' = FALSE
      /\ latestIssued' = latestIssued
      /\ accepted' = IF relevant
                       THEN (IF outcome = "ok" THEN data.results ELSE << >>)
                       ELSE accepted

(* ------------------------------ actions ------------------------------- *)

\* History of a change of the live query.
QueryChanged ==
  /\ emissions' = 0
  /\ burst' = IF emissions > 0 THEN 1 ELSE Min(burst + 1, MaxBurst)

\* Mutant of Mount: the initial-load and [debouncedQuery] effects do not
\* call searchPublications on the first render.
MountIdle ==
  /\ ~mounted
  /\ mounted' = TRUE
  /\ LET d == DebounceEffect(timers, debounceRef, query)
     IN  timers' = d.timers /\ debounceRef' = d.ref
  /\ UNCHANGED <<currentPage, inflight, loading, error, latestIssued>>
  /\ UNCHANGED <<query, debouncedQuery, results, totalPages, totalResults,
                 searchTime, sortBy, sortOrder, accepted, emissions, burst>>
  /\ UNCHANGED <<cls, probe>>

\* First render: the three effects run in source order.
Mount ==
  /\ ~mounted
  /\ mounted' = TRUE
  /\ LET d == DebounceEffect(timers, debounceRef, query)
     IN  timers' = d.timers /\ debounceRef' = d.ref
  /\ currentPage' = 1
  /\ Issue(<<Request("", 1), Request(debouncedQuery, 1)>>)
  /\ UNCHANGED <<query, debouncedQuery, results, totalPages, totalResults,
                 searchTime, sortBy, sortOrder, accepted, emissions, burst>>
  /\ UNCHANGED <<cls, probe>>

\* Mutant of Keystroke: onChange also calls setCurrentPage(1).
KeystrokeResetsPage(v) ==
  /\ mounted
  /\ v # query
  /\ query' = v
  /\ LET d == DebounceEffect(timers, debounceRef, v)
     IN  timers' = d.timers /\ debounceRef' = d.ref
  /\ QueryChanged
  /\ currentPage' = 1
  /\ UNCHANGED <<mounted, debouncedQuery, results, loading,
                 totalPages, totalResults, error, searchTime, sortBy,
                 sortOrder, inflight, latestIssued, accepted>>
  /\ UNCHANGED <<cls, probe>>

\* onChange of the input: setQuery(e.target.value), then the [query] effect.
Keystroke(v) ==
  /\ mounted
  /\ v # query
  /\ query' = v
  /\ LET d == DebounceEffect(timers, debounceRef, v)
     IN  timers' = d.timers /\ debounceRef' = d.ref
  /\ QueryChanged
  /\ UNCHANGED <<mounted, debouncedQuery, results, loading, currentPage,
                 totalPages, totalResults, error, searchTime, sortBy,
                 sortOrder, inflight, latestIssued, accepted>>
  /\ UNCHANGED <<cls, probe>>

\* Mutant of DebounceFire: the [debouncedQuery] effect omits
\* setCurrentPage(1).
DebounceFireKeepPage(t) ==
  /\ mounted
  /\ t \in timers
  /\ timers' = timers \ {t}
  /\ debouncedQuery' = t.value
  /\ emissions' = emissions + 1
  /\ IF t.value # debouncedQuery
       THEN /\ currentPage' = currentPage
            /\ Issue(<<Request(t.value, 1)>>)
       ELSE UNCHANGED <<currentPage, inflight, loading, error, latestIssued>>
  /\ UNCHANGED <<mounted, query, results, totalPages, totalResults,
                 searchTime, sortBy, sortOrder, debounceRef, accepted, burst>>
  /\ UNCHANGED <<cls, probe>>

\* Mutant of DebounceFire: the timer repeats (setInterval for setTimeout),
\* so it stays pending after its callback ran.
DebounceFireRepeating(t) ==
  /\ mounted
  /\ t \in timers
  /\ timers' = timers
  /\ debouncedQuery' = t.value
  /\ emissions' = emissions + 1
  /\ IF t.value # debouncedQuery
       THEN /\ currentPage' = 1
            /\ Issue(<<Request(t.value, 1)>>)
       ELSE UNCHANGED <<currentPage, inflight, loading, error, latestIssued>>
  /\ UNCHANGED <<mounted, query, results, totalPages, totalResults,
                 searchTime, sortBy, sortOrder, debounceRef, accepted, burst>>
  /\ UNCHANGED <<cls, probe>>

\* The timer callback: setDebouncedQuery(query), then the [debouncedQuery]
\* effect when the value changed.
DebounceFire(t) ==
  /\ mounted
  /\ t \in timers
  /\ timers' = timers \ {t}
  /\ debouncedQuery' = t.value
  /\ emissions' = emissions + 1
  /\ IF t.value # debouncedQuery
       THEN /\ currentPage' = 1
            /\ Issue(<<Request(t.value, 1)>>)
       ELSE UNCHANGED <<currentPage, inflight, loading, error, latestIssued>>
  /\ UNCHANGED <<mounted, query, results, totalPages, totalResults,
                 searchTime, sortBy, sortOrder, debounceRef, accepted, burst>>
  /\ UNCHANGED <<cls, probe>>

\* handleClearSearch (the buttons are rendered only for a non-empty query),
\* then the [query] effect and, when debouncedQuery changed, its effect.
Clear ==
  /\ mounted
  /\ query # ""
  /\ query' = ""
  /\ debouncedQuery' = ""
  /\ currentPage' = 1
  /\ LET d == DebounceEffect(clearTimeout(timers, debounceRef), debounceRef, "")
     IN  timers' = d.timers /\ debounceRef' = d.ref
  /\ Issue(IF debouncedQuery # ""
             THEN <<Request("", 1), Request("", 1)>>
             ELSE <<Request("", 1)>>)
  /\ QueryChanged
  /\ UNCHANGED <<mounted, results, totalPages, totalResults, searchTime,
                 sortBy, sortOrder, accepted>>
  /\ UNCHANGED <<cls, probe>>

\* handleSearch; the submit button is disabled while loading.
Submit ==
  /\ mounted
  /\ ~loading
  /\ currentPage' = 1
  /\ Issue(<<Request(query, 1)>>)
  /\ UNCHANGED <<mounted, query, debouncedQuery, results, totalPages,
                 totalResults, searchTime, sortBy, sortOrder, debounceRef,
                 timers, accepted, emissions, burst>>
  /\ UNCHANGED <<cls, probe>>

\* handlePageChange from a button of Pagination (rendered for totalPages > 1).
PageChange(p) ==
  /\ mounted
  /\ totalPages > 1
  /\ p \in PageTargets(currentPage, totalPages)
  /\ currentPage' = p
  /\ Issue(<<Request(query, p)>>)
  /\ UNCHANGED <<mounted, query, debouncedQuery, results, totalPages,
                 totalResults, searchTime, sortBy, sortOrder, debounceRef,
                 timers, accepted, emissions, burst>>
  /\ UNCHANGED <<cls, probe>>

\* Mutant of QuickSearch: the request is made with the text of the last
\* render (searchPublications(query, 1)) instead of the suggestion.
QuickSearchStale(s) ==
  /\ mounted
  /\ query = "" \/ (~loading /\ Len(results) = 0)
  /\ s \in suggestions
  /\ query' = s
  /\ currentPage' = 1
  /\ Issue(<<Request(query, 1)>>)
  /\ IF s # query
       THEN /\ LET d == DebounceEffect(timers, debounceRef, s)
               IN  timers' = d.timers /\ debounceRef' = d.ref
            /\ QueryChanged
       ELSE UNCHANGED <<timers, debounceRef, emissions, burst>>
  /\ UNCHANGED <<mounted, debouncedQuery, results, totalPages, totalResults,
                 searchTime, sortBy, sortOrder, accepted>>
  /\ UNCHANGED <<cls, probe>>

\* handleQuickSearch; QuickSearch is rendered for an empty query or an
\* empty result list.  The [query] effect runs when the text changed.
QuickSearch(s) ==
  /\ mounted
  /\ query = "" \/ (~loading /\ Len(results) = 0)
  /\ s \in suggestions
  /\ query' = s
  /\ currentPage' = 1
  /\ Issue(<<Request(s, 1)>>)
  /\ IF s # query
       THEN /\ LET d == DebounceEffect(timers, debounceRef, s)
               IN  timers' = d.timers /\ debounceRef' = d.ref
            /\ QueryChanged
       ELSE UNCHANGED <<timers, debounceRef, emissions, burst>>
  /\ UNCHANGED <<mounted, debouncedQuery, results, totalPages, totalResults,
                 searchTime, sortBy, sortOrder, accepted>>
  /\ UNCHANGED <<cls, probe>>

\* Mutant of handleSortChange: after sorting, a publication whose key
\* equals its predecessor's is dropped (a sorted "unique by key").
handleSortChangeUnique(by, ord) ==
  /\ sortBy' = by
  /\ sortOrder' = ord
  /\ \E o \in sortOutcomes(results, by, ord) :
       LET kept == {i \in 1..Len(o) :
                      i = 1 \/ KeyGreater(o[i - 1], o[i], by)
                            \/ KeyGreater(o[i], o[i - 1], by)}
       IN  results' = [n \in 1..Cardinality(kept) |->
                         o[CHOOSE i \in kept :
                             Cardinality({j \in kept : j <= i}) = n]]
  /\ UNCHANGED <<mounted, query, debouncedQuery, loading, currentPage,
                 totalPages, totalResults, error, searchTime, debounceRef,
                 timers, inflight, latestIssued, accepted, emissions, burst>>

\* Mutant of handleSortChange: the handler also re-fetches the page
\* (searchPublications(query, currentPage)).
handleSortChangeRefetch(by, ord) ==
  /\ sortBy' = by
  /\ sortOrder' = ord
  /\ results' \in sortOutcomes(results, by, ord)
  /\ Issue(<<Request(query, currentPage)>>)
  /\ UNCHANGED <<mounted, query, debouncedQuery, currentPage,
                 totalPages, totalResults, searchTime, debounceRef,
                 timers, accepted, emissions, burst>>

\* handleSortChange(newSortBy, newSortOrder): the handler itself.
handleSortChange(by, ord) ==
  /\ sortBy' = by
  /\ sortOrder' = ord
  /\ results' \in sortOutcomes(results, by, ord)
  /\ UNCHANGED <<mounted, query, debouncedQuery, loading, currentPage,
                 totalPages, totalResults, error, searchTime, debounceRef,
                 timers, inflight, latestIssued, accepted, emissions, burst>>

\* handleSortChange from SortFilter (rendered when not loading and
\* totalResults > 0): the select changes the field, the button the order.
SortChange(by, ord) ==
  /\ mounted
  /\ ~loading
  /\ totalResults > 0
  /\ (by # sortBy /\ ord = sortOrder) \/ (by = sortBy /\ ord # sortOrder)
  /\ handleSortChange(by, ord)
  /\ UNCHANGED <<cls, probe>>

\* A fetch settles and the awaiting searchPublications call resumes.
Complete(i, outcome, d) ==
  /\ mounted
  /\ i \in 1..Len(inflight)
  /\ Settle(i, outcome, d)
  /\ UNCHANGED <<mounted, query, debouncedQuery, sortBy, sortOrder,
                 debounceRef, timers, emissions, burst>>
  /\ UNCHANGED <<cls, probe>>

SortFields == {"relevance", "published_date", "title"}

SortOrders == {"asc", "desc"}

Next ==
  \/ Mount
  \/ \E v \in KeyValues : Keystroke(v)
  \/ \E t \in timers : DebounceFire(t)
  \/ Clear
  \/ \E p \in PageTargets(currentPage, totalPages) : PageChange(p)
  \/ Submit
  \/ \E s \in suggestions : QuickSearch(s)
  \/ \E by \in SortFields, ord \in SortOrders : SortChange(by, ord)
  \/ \E i \in 1..MaxInflight, outcome \in Outcomes, d \in Durations :
       Complete(i, outcome, d)

Spec == Init /\ [][Next]_vars

\* The session with its scheduling: a pending timer's callback runs (the
\* event loop runs it whatever else is outstanding), and every fetch
\* settles.
SpecLive ==
  /\ Init /\ [][Next]_vars
  /\ SF_vars(\E t \in timers : DebounceFire(t))
  /\ WF_vars(\E i \in 1..MaxInflight, outcome \in Outcomes, d \in Durations :
               Complete(i, outcome, d))

(* ---------------------- DocumentClassification ------------------------ *)

\* Contents of the textarea as character codes: "", " " and "n".
TextValues == { << >>, <<32>>, <<110>> }

ModelTypes == {"naive_bayes", "logistic_regression"}

\* White space removed by String.prototype.trim (space, tab, line feed).
IsSpace(c) == c \in {32, 9, 10}

\* String.prototype.trim
RECURSIVE trim(_)
trim(t) ==
  IF t = << >> THEN t
  ELSE IF IsSpace(t[1]) THEN trim(Tail(t))
  ELSE IF IsSpace(t[Len(t)]) THEN trim(SubSeq(t, 1, Len(t) - 1))
  ELSE t

\* ApiService.classifyText(text, model) on success.
ClassificationResult(t, model) ==
  [kind |-> "result", predicted_category |-> "business",
   model_used |-> model, text_length |-> Len(t)]

\* ApiService.getModelInfo(model) on success.
ModelInfo(model) ==
  [kind |-> "info", is_trained |-> model = "naive_bayes",
   total_documents |-> IF model = "naive_bayes" THEN 100 ELSE 0]

\* Ways a classification or model-info fetch can end.
CallOutcomes == {"ok", "failed"}

\* Removal of the i-th outstanding call.
Without(calls, i) ==
  [j \in 1..(Len(calls) - 1) |-> IF j < i THEN calls[j] ELSE calls[j + 1]]

\* The body of the [modelType] effect up to the await.
loadModelInfo(c) ==
  [c EXCEPT !.infoCalls = Append(@, [model |-> c.modelType])]

\* First render of DocumentClassification: the [modelType] effect runs.
ClsMount ==
  /\ ~cls.mounted
  /\ Len(cls.infoCalls) < MaxCalls
  /\ cls' = loadModelInfo([cls EXCEPT !.mounted = TRUE])
  /\ UNCHANGED <<searchVars, probe>>

\* onChange of the textarea, or one of the sample buttons.
SetText(t) ==
  /\ cls.mounted
  /\ t # cls.text
  /\ cls' = [cls EXCEPT !.text = t]
  /\ UNCHANGED <<searchVars, probe>>

\* onChange of the model select, then the [modelType] effect.
SetModelType(m) ==
  /\ cls.mounted
  /\ m # cls.modelType
  /\ Len(cls.infoCalls) < MaxCalls
  /\ cls' = loadModelInfo([cls EXCEPT !.modelType = m])
  /\ UNCHANGED <<searchVars, probe>>

\* Mutant of handleClassify: the guard is !text, without trim().
handleClassifyUntrimmed ==
  /\ cls.mounted
  /\ IF cls.text = << >>
       THEN cls' = [cls EXCEPT !.error = "Please enter some text to classify"]
       ELSE /\ Len(cls.classifyCalls) < MaxCalls
            /\ cls' = [cls EXCEPT !.loading = TRUE,
                                  !.error = Null,
                                  !.classifyCalls =
                                     Append(@, [text |-> cls.text,
                                                model |-> cls.modelType])]
  /\ UNCHANGED <<searchVars, probe>>

\* handleClassify up to the await.  (Its button is disabled while loading
\* and for blank text; the handler is modelled as it stands, callable at
\* any time.)
handleClassify ==
  /\ cls.mounted
  /\ IF trim(cls.text) = << >>
       THEN cls' = [cls EXCEPT !.error = "Please enter some text to classify"]
       ELSE /\ Len(cls.classifyCalls) < MaxCalls
            /\ cls' = [cls EXCEPT !.loading = TRUE,
                                  !.error = Null,
                                  !.classifyCalls =
                                     Append(@, [text |-> cls.text,
                                                model |-> cls.modelType])]
  /\ UNCHANGED <<searchVars, probe>>

\* handleClear
handleClear ==
  /\ cls.mounted
  /\ cls' = [cls EXCEPT !.text = << >>, !.result = NullObject, !.error = Null]
  /\ UNCHANGED <<searchVars, probe>>

\* handleClassify after the await: try tail or catch, then finally.
ClassifyComplete(i, outcome) ==
  /\ i \in 1..Len(cls.classifyCalls)
  /\ LET call == cls.classifyCalls[i]
     IN  cls' = [cls EXCEPT
                   !.classifyCalls = Without(@, i),
                   !.result = IF outcome = "ok"
                                THEN ClassificationResult(call.text, call.model)
                                ELSE @,
                   !.error = IF outcome = "ok"
                               THEN @
                               ELSE "Failed to classify text. Please try again.",
                   !.loading = FALSE]
  /\ UNCHANGED <<searchVars, probe>>

\* Mutant of InfoComplete: the catch block also calls setModelInfo(null)
\* and setError.
InfoCompleteSurfacing(i, outcome) ==
  /\ i \in 1..Len(cls.infoCalls)
  /\ LET call == cls.infoCalls[i]
     IN  cls' = [cls EXCEPT
                   !.infoCalls = Without(@, i),
                   !.modelInfo = IF outcome = "ok" THEN ModelInfo(call.model)
                                                   ELSE NullObject,
                   !.error = IF outcome = "ok" THEN @
                                               ELSE "Failed to load model info"]
  /\ UNCHANGED <<searchVars, probe>>

\* loadModelInfo after the await: setModelInfo, or console.error only.
InfoComplete(i, outcome) ==
  /\ i \in 1..Len(cls.infoCalls)
  /\ LET call == cls.infoCalls[i]
     IN  cls' = [cls EXCEPT
                   !.infoCalls = Without(@, i),
                   !.modelInfo = IF outcome = "ok" THEN ModelInfo(call.model) ELSE @]
  /\ UNCHANGED <<searchVars, probe>>

ClassifyNext ==
  \/ ClsMount
  \/ \E t \in TextValues : SetText(t)
  \/ \E m \in ModelTypes : SetModelType(m)
  \/ handleClassify
  \/ handleClear
  \/ \E i \in 1..MaxCalls, outcome \in CallOutcomes : ClassifyComplete(i, outcome)
  \/ \E i \in 1..MaxCalls, outcome \in CallOutcomes : InfoComplete(i, outcome)

SpecClassify == Init /\ [][ClassifyNext]_vars

\* DocumentClassification when every model-info request succeeds.
InfoOkNext ==
  \/ ClsMount
  \/ \E t \in TextValues : SetText(t)
  \/ \E m \in ModelTypes : SetModelType(m)
  \/ handleClassify
  \/ handleClear
  \/ \E i \in 1..MaxCalls, outcome \in CallOutcomes : ClassifyComplete(i, outcome)
  \/ \E i \in 1..MaxCalls : InfoComplete(i, "ok")

SpecInfoOk == Init /\ [][InfoOkNext]_vars

(* --------------------- Pagination on its own -------------------------- *)

\* Pagination is given any props with 1 <= currentPage <= totalPages.
PagesInit ==
  /\ SearchInit
  /\ cls = ClsInit
  /\ probe \in {[kind |-> "pages", current |-> c, total |-> t,
                  rendered |-> FALSE, pages |-> << >>] :
                   t \in 1..MaxTotalPages, c \in 1..MaxTotalPages}
  /\ probe.current <= probe.total

\* One render of Pagination: getVisiblePages() for the props.
RenderPagination ==
  /\ probe.kind = "pages"
  /\ ~probe.rendered
  /\ probe' = [probe EXCEPT !.rendered = TRUE,
                            !.pages = getVisiblePages(probe.current, probe.total)]
  /\ UNCHANGED <<searchVars, cls>>

PagesNext == RenderPagination

SpecPages == PagesInit /\ [][PagesNext]_vars

(* --------------------- the local sort on its own ---------------------- *)

\* Publications of the pages given to the sort; 1 and 2 have equal scores.
SortPubs == {1, 2, 3, 4}

\* Result pages: sequences of distinct publications.
SortInputs ==
  {q \in UNION {[1..n -> SortPubs] : n \in 0..MaxSortLen} :
     \A i, j \in 1..Len(q) : i # j => q[i] # q[j]}

\* A Ready session holding any one result page of a single-page response.
SortInit ==
  /\ mounted = TRUE
  /\ query = ""
  /\ debouncedQuery = ""
  /\ results \in SortInputs
  /\ loading = FALSE
  /\ currentPage = 1
  /\ totalPages = 1
  /\ totalResults = Len(results)
  /\ error = Null
  /\ searchTime = 1
  /\ sortBy = "relevance"
  /\ sortOrder = "desc"
  /\ debounceRef = 1
  /\ timers = {}
  /\ inflight = << >>
  /\ latestIssued = <<"", 1>>
  /\ accepted = results
  /\ emissions = 1
  /\ burst = 0
  /\ cls = ClsInit
  /\ probe = [kind |-> "sort", step |-> 0, input |-> results, once |-> << >>]

\* handleSortChange with any sort spec on the page as received.
SortFirst(by, ord) ==
  /\ probe.kind = "sort"
  /\ probe.step = 0
  /\ handleSortChange(by, ord)
  /\ probe' = [probe EXCEPT !.step = 1]
  /\ UNCHANGED cls

\* handleSortChange once more with the sort spec in force.
SortAgain ==
  /\ probe.kind = "sort"
  /\ probe.step = 1
  /\ handleSortChange(sortBy, sortOrder)
  /\ probe' = [probe EXCEPT !.step = 2, !.once = results]
  /\ UNCHANGED cls

\* After relevance desc, handleSortChange with relevance asc.
SortFlip ==
  /\ probe.kind = "sort"
  /\ probe.step = 1
  /\ sortBy = "relevance"
  /\ sortOrder = "desc"
  /\ handleSortChange("relevance", "asc")
  /\ probe' = [probe EXCEPT !.step = 3, !.once = results]
  /\ UNCHANGED cls

SortNext ==
  \/ \E by \in SortFields, ord \in SortOrders : SortFirst(by, ord)
  \/ SortAgain
  \/ SortFlip

SpecSort == SortInit /\ [][SortNext]_vars

(* ------------------------- shared vocabulary -------------------------- *)

\* What a response populates.
shown == <<results, totalResults, totalPages, currentPage>>

\* The requests issued by the step, in call order.
Issued == SubSeq(inflight', Len(inflight) + 1, Len(inflight'))

\* Position of publication x in the sequence s.
IndexOf(s, x) == CHOOSE i \in 1..Len(s) : s[i] = x

\* The two publications have equal sort keys.
EqualKeys(a, b, by) == ~KeyGreater(a, b, by) /\ ~KeyGreater(b, a, by)

Reverse(s) == [i \in 1..Len(s) |-> s[Len(s) + 1 - i]]

\* Same publications with the same count, in any order.
SameMembers(a, b) ==
  /\ Len(a) = Len(b)
  /\ \A x \in {a[i] : i \in 1..Len(a)} \cup {b[i] : i \in 1..Len(b)} :
       Cardinality({i \in 1..Len(a) : a[i] = x})
         = Cardinality({i \in 1..Len(b) : b[i] = x})

(* ------------------------------ claims -------------------------------- *)

\* C1: when request A was issued before a request B for another
\* (query, page) and B's response has already been applied, A's response
\* completing afterwards leaves results, totalResults, totalPages and page
\* as they are.
C1_StaleAfterNewerApplied ==
  [][\A i \in 1..Len(inflight), d \in Durations :
       (inflight[i].newerApplied /\ Complete(i, "ok", d)) => UNCHANGED shown]_vars

\* C2: while a newer request for another (query, page) is still outstanding,
\* the completion of an earlier request changes none of results,
\* totalResults, totalPages, page and raises no error.
C2_LatestWinsWhilePending ==
  [][\A i \in 1..Len(inflight), outcome \in Outcomes, d \in Durations :
       ( /\ \E j \in (i + 1)..Len(inflight) :
                <<inflight[j].query, inflight[j].page>>
                  # <<inflight[i].query, inflight[i].page>>
         /\ Complete(i, outcome, d) )
       => UNCHANGED <<shown, error>>]_vars

\* C3: after the live query last changed the debounce callback runs at most
\* once; until it has run exactly one timer is pending and it holds the
\* final text, and once it has run debouncedQuery is that final text.
C3_DebounceOnce ==
  mounted =>
    \/ /\ emissions = 0
       /\ \E t \in timers : timers = {t} /\ t.value = query
    \/ /\ emissions = 1
       /\ timers = {}
       /\ debouncedQuery = query

\* C3 witness: three changes of the text in one burst, then the one callback,
\* which committed the last text.
C3_Witness ==
  /\ burst = 3
  /\ emissions = 1
  /\ query = "machine learning"
  /\ debouncedQuery = "machine learning"

\* C4: at most one debounce timer is pending, and it is the one debounceRef
\* holds, so the next change of the query cancels it.
C4_OnePendingTimer ==
  /\ Cardinality(timers) <= 1
  /\ \A t \in timers : t.id = debounceRef

\* C4 witness: the timer has been re-armed by a second change of the text
\* and a single timer is pending.
C4_Witness ==
  /\ burst >= 2
  /\ emissions = 0
  /\ Cardinality(timers) = 1

\* C5: the current page is within 1 .. max(totalPages, 1).
C5_PageInRange ==
  /\ 1 <= currentPage
  /\ currentPage <= Max(totalPages, 1)

\* C6: results has the members and count of the most recently completed
\* response for the latest issued (query, page); a failure counts with no
\* members.
C6_ResultsFromAccepted ==
  SameMembers(results, accepted)

\* C7: a page change to the current page issues no request and changes
\* none of page, loading, error and results.
C7_SamePageNoOp ==
  [][PageChange(currentPage)
       => UNCHANGED <<inflight, currentPage, loading, error, results>>]_vars

\* C8: a clear leaves no debounce timer pending, empties query and
\* debouncedQuery, sets page 1 and issues a request for ("", 1).
C8_ClearCancelsTimer ==
  [][Clear =>
       /\ timers' = {}
       /\ query' = ""
       /\ debouncedQuery' = ""
       /\ currentPage' = 1
       /\ Len(Issued) >= 1
       /\ \A i \in 1..Len(Issued) : Issued[i].query = "" /\ Issued[i].page = 1]_vars

\* C9 as stated: a keystroke issues no request, and every request issued
\* carries the debouncedQuery value.
C9_OnlyDebouncedFetches ==
  [][/\ (\E v \in KeyValues : Keystroke(v)) => inflight' = inflight
     /\ \A i \in 1..Len(Issued) : Issued[i].query = debouncedQuery']_vars

\* C9 amended: a keystroke issues no request, and every request issued
\* carries the debounced query or the live query held when the issuing
\* task ends.
C9_FetchesDebouncedOrLive ==
  [][/\ (\E v \in KeyValues : Keystroke(v)) => inflight' = inflight
     /\ \A i \in 1..Len(Issued) :
          Issued[i].query = debouncedQuery' \/ Issued[i].query = query']_vars

\* C9 witness: an outstanding request carries the live text while the
\* debounced query is still another text.
C9_Witness ==
  \E i \in 1..Len(inflight) :
    /\ inflight[i].query = query
    /\ inflight[i].query # debouncedQuery

\* C10: never two search requests outstanding at once.
C10_SingleInflight ==
  Len(inflight) <= 1

\* C11: for 1 <= current <= total the page list has at most 7 entries and,
\* when total > 1, contains page 1 and page total.
C11_PagesBounded ==
  (probe.kind = "pages" /\ probe.rendered) =>
    /\ Len(probe.pages) <= 7
    /\ probe.total > 1 =>
         /\ \E i \in 1..Len(probe.pages) : probe.pages[i] = 1
         /\ \E i \in 1..Len(probe.pages) : probe.pages[i] = probe.total

\* C11 witness: a list of more than 7 pages was rendered with an ellipsis.
C11_Witness ==
  /\ probe.kind = "pages"
  /\ probe.rendered
  /\ probe.total > 7
  /\ \E i \in 1..Len(probe.pages) : probe.pages[i] = Ellipsis

\* The page list as the specification describes it, entry by entry.
ReferencePages(current, total) ==
  IF total <= 7 THEN [i \in 1..total |-> i]
  ELSE [i \in 1..7 |->
          IF current <= 4
            THEN (IF i <= 5 THEN i ELSE IF i = 6 THEN Ellipsis ELSE total)
          ELSE IF current >= total - 3
            THEN (IF i = 1 THEN 1 ELSE IF i = 2 THEN Ellipsis ELSE total - 7 + i)
          ELSE (IF i = 1 THEN 1
                ELSE IF i = 2 \/ i = 6 THEN Ellipsis
                ELSE IF i = 7 THEN total
                ELSE current + i - 4)]

\* C12: the page list equals the reference definition for every
\* 1 <= current <= total.
C12_PagesAsReference ==
  (probe.kind = "pages" /\ probe.rendered) =>
    probe.pages = ReferencePages(probe.current, probe.total)

\* C12 witness: the middle form, with an ellipsis on both sides of the
\* window around the current page.
C12_Witness ==
  /\ probe.kind = "pages"
  /\ probe.rendered
  /\ probe.current > 4
  /\ probe.current < probe.total - 3
  /\ probe.pages = <<1, Ellipsis, probe.current - 1, probe.current,
                     probe.current + 1, Ellipsis, probe.total>>

\* C13: sorting the already sorted page again with the same sort spec
\* yields the same sequence.
C13_SortIdempotent ==
  (probe.kind = "sort" /\ probe.step = 2) => results = probe.once

\* C14: two publications with equal sort keys keep their relative order
\* of the input in the sorted page.
C14_SortStable ==
  (probe.kind = "sort" /\ probe.step = 1) =>
    \A i, j \in 1..Len(probe.input) :
      (i < j /\ EqualKeys(probe.input[i], probe.input[j], sortBy))
        => IndexOf(results, probe.input[i]) < IndexOf(results, probe.input[j])

\* C15: for pairwise distinct scores, relevance asc applied to the
\* relevance desc ordering yields exactly its reverse.
C15_RelevanceRoundTrip ==
  ( /\ probe.kind = "sort"
    /\ probe.step = 3
    /\ \A i, j \in 1..Len(probe.input) :
         i # j => ~EqualKeys(probe.input[i], probe.input[j], "relevance") )
  => results = Reverse(probe.once)

\* C15 witness: three publications with distinct scores, sorted desc and
\* then asc, in the opposite order.
C15_Witness ==
  /\ probe.kind = "sort"
  /\ probe.step = 3
  /\ Len(results) = 3
  /\ \A i, j \in 1..Len(probe.input) :
       i # j => ~EqualKeys(probe.input[i], probe.input[j], "relevance")
  /\ results = Reverse(probe.once)
  /\ results # probe.once

\* C16: a page change to p in a Ready session issues one request for
\* (query, p) with size 10; when a request for page p succeeds with total T
\* the range shown is (p-1)*10+1 to min(p*10, T) of T.  With total 23 and
\* 3 pages the page list is 1,2,3 and page 2 shows 11-20.
C16_PageChangeRange ==
  [][/\ \A p \in PageTargets(currentPage, totalPages) :
          (~loading /\ PageChange(p)) =>
             /\ Len(Issued) = 1
             /\ Issued[1].query = query
             /\ Issued[1].page = p
             /\ Issued[1].size = 10
     /\ \A i \in 1..Len(inflight), d \in Durations :
          Complete(i, "ok", d) =>
             LET p == inflight[i].page
                 T == Len(Corpus(inflight[i].query))
             IN  /\ startResult(currentPage', pageSize) = (p - 1) * 10 + 1
                 /\ endResult(currentPage', pageSize, totalResults')
                      = (IF p * 10 < T THEN p * 10 ELSE T)
                 /\ totalResults' = T
                 /\ ~loading'
     /\ getVisiblePages(1, 3) = <<1, 2, 3>>
     /\ startResult(2, 10) = 11
     /\ endResult(2, 10, 23) = 20]_vars

\* C16 witness: page 2 of the 12 publications of the empty query is shown
\* as 11-12 of 12.
C16_Witness ==
  /\ ~loading
  /\ currentPage = 2
  /\ totalResults = 12
  /\ results = <<11, 12>>
  /\ startResult(currentPage, pageSize) = 11
  /\ endResult(currentPage, pageSize, totalResults) = 12

\* C17: handleClassify on a text that is blank after trimming sets the
\* validation error, issues no classification request and leaves loading
\* and the previous result as they are.
C17_BlankTextRejected ==
  [][(handleClassify /\ trim(cls.text) = << >>) =>
       /\ cls'.error = "Please enter some text to classify"
       /\ cls'.classifyCalls = cls.classifyCalls
       /\ cls'.loading = cls.loading
       /\ cls'.result = cls.result]_vars

\* C17 witness: a white-space-only text was rejected while an earlier
\* result is held; nothing is loading or outstanding.
C17_Witness ==
  /\ cls.text = <<32>>
  /\ cls.error = "Please enter some text to classify"
  /\ ~cls.loading
  /\ cls.classifyCalls = << >>
  /\ cls.result # NullObject

\* C18: a failed search request is not retried: its completion leaves one
\* request fewer outstanding and arms no timer, and every step that issues
\* a request is the mount or a user action (a debounce firing, clear, page
\* change, submit or quick search).
C18_NoAutomaticRetry ==
  [][/\ \A i \in 1..Len(inflight), outcome \in Outcomes \ {"ok"}, d \in Durations :
          Complete(i, outcome, d) =>
            /\ Len(inflight') = Len(inflight) - 1
            /\ timers' = timers
     /\ (Len(inflight') >= Len(inflight) /\ inflight' # inflight) =>
          \/ Mount
          \/ \E t \in timers : DebounceFire(t)
          \/ Clear
          \/ \E p \in PageTargets(currentPage, totalPages) : PageChange(p)
          \/ Submit
          \/ \E q \in suggestions : QuickSearch(q)]_vars

\* C18 witness: a request has failed and the controller is at rest: the
\* error is shown, nothing is outstanding and no timer is pending.
C18_Witness ==
  /\ mounted
  /\ error # Null
  /\ ~loading
  /\ inflight = << >>
  /\ timers = {}

\* C19: a submit resets the page to 1, sets loading, issues exactly the
\* request (query, 1) and leaves no debounce timer pending whose firing
\* would issue a request (one whose value differs from debouncedQuery).
C19_SubmitCancelsDebounce ==
  [][Submit =>
       /\ currentPage' = 1
       /\ loading'
       /\ Issued = <<Request(query, 1)>>
       /\ \A t \in timers' : t.value = debouncedQuery']_vars

\* C20 as stated: every firing of the debounce timer with value q sets
\* debouncedQuery to q, resets the page to 1, sets loading and issues the
\* request (q, 1).
C20_FireAlwaysFetches ==
  [][\A t \in timers :
       DebounceFire(t) =>
         /\ debouncedQuery' = t.value
         /\ currentPage' = 1
         /\ loading'
         /\ Issued = <<Request(t.value, 1)>>]_vars

\* C20 amended: a firing with a value q other than debouncedQuery sets
\* debouncedQuery to q, resets the page to 1, sets loading and issues the
\* request (q, 1); a firing with q equal to debouncedQuery leaves
\* debouncedQuery, the page, loading and the outstanding requests as they
\* are.
C20_FireFetchesOnChange ==
  [][\A t \in timers :
       DebounceFire(t) =>
         /\ debouncedQuery' = t.value
         /\ IF t.value # debouncedQuery
              THEN /\ currentPage' = 1
                   /\ loading'
                   /\ Issued = <<Request(t.value, 1)>>
              ELSE /\ currentPage' = currentPage
                   /\ loading' = loading
                   /\ inflight' = inflight]_vars

\* C20 witness: the timer has fired with "machine learning" after page 2 of
\* another query was current: the page is 1 again, loading is set and the
\* newest outstanding request is ("machine learning", 1), with no
\* timer left.
C20_Witness ==
  /\ debouncedQuery = "machine learning"
  /\ emissions = 1
  /\ timers = {}
  /\ currentPage = 1
  /\ loading
  /\ inflight # << >>
  /\ inflight[Len(inflight)] = Request("machine learning", 1)
  /\ results = SearchResponse("", 2, pageSize).results

\* C21: a keystroke sets the live query and leaves exactly one pending
\* debounce timer, carrying the new text; debouncedQuery, the page,
\* totalPages, totalResults, results, loading, error and the sort spec are
\* unchanged and no request is issued.
C21_KeystrokeFrame ==
  [][\A v \in KeyValues :
       Keystroke(v) =>
         /\ query' = v
         /\ \E t \in timers' : timers' = {t} /\ t.value = v
         /\ inflight' = inflight
         /\ UNCHANGED <<debouncedQuery, currentPage, totalPages, totalResults,
                        results, loading, error, sortBy, sortOrder>>]_vars

\* C21 witness: text was typed over page 2 of the shown results and nothing
\* else has happened since: the timer for the typed text is pending, the
\* page, the results and debouncedQuery are the old ones.
C21_Witness ==
  /\ query = "machine learning"
  /\ debouncedQuery = ""
  /\ timers # {}
  /\ \A t \in timers : t.value = query
  /\ currentPage = 2
  /\ results # << >>
  /\ ~loading
  /\ inflight = << >>

\* C22: a page change happens only while nothing is loading, and every
\* request it issues carries a page in 1..totalPages.
C22_PageChangeOnlyWhenReady ==
  [][\A p \in PageTargets(currentPage, totalPages) :
       PageChange(p) =>
         /\ ~loading
         /\ \A i \in 1..Len(Issued) : Issued[i].page \in 1..totalPages]_vars

\* C23: the completion of a request that failed (network error, non-2xx
\* status or undecodable body) sets error to the failure's message, empties
\* results and sets loading to false; totals, page and duration are not
\* taken from any response.
C23_FailureSetsError ==
  [][\A i \in 1..Len(inflight), outcome \in Outcomes \ {"ok"}, d \in Durations :
       Complete(i, outcome, d) =>
         /\ error' = ErrorMessage(outcome)
         /\ error' # Null
         /\ results' = << >>
         /\ ~loading'
         /\ UNCHANGED <<totalResults, totalPages, currentPage, searchTime>>]_vars

\* C23 witness: a request failed with a non-2xx status after an earlier
\* one had succeeded: the error is shown, results are empty, loading is
\* false and the earlier totals are still held.
C23_Witness ==
  /\ error = ErrorMessage("http")
  /\ results = << >>
  /\ ~loading
  /\ totalResults > 0
  /\ inflight = << >>

\* C24: the successful completion of the request for the latest issued
\* (query, page) sets results, totalResults, totalPages and the page from
\* the response, records the duration, and leaves the controller Ready:
\* loading false and no error.
C24_SuccessPopulates ==
  [][\A i \in 1..Len(inflight), d \in Durations :
       (Complete(i, "ok", d) /\ <<inflight[i].query, inflight[i].page>> = latestIssued) =>
         LET data == SearchResponse(inflight[i].query, inflight[i].page,
                                    inflight[i].size)
         IN  /\ results' = data.results
             /\ totalResults' = data.total
             /\ totalPages' = data.total_pages
             /\ currentPage' = data.page
             /\ searchTime' = d
             /\ ~loading'
             /\ error' = Null]_vars

\* C25: a sort change issues no request, arms no timer and leaves loading
\* (false), error, query, debouncedQuery, the page, totalPages and
\* totalResults unchanged; the sort spec becomes the chosen one.
C25_SortChangeFrame ==
  [][\A by \in SortFields, ord \in SortOrders :
       SortChange(by, ord) =>
         /\ inflight' = inflight
         /\ timers' = timers
         /\ ~loading'
         /\ sortBy' = by /\ sortOrder' = ord
         /\ UNCHANGED <<loading, error, query, debouncedQuery, currentPage,
                        totalPages, totalResults>>]_vars

\* C25 witness: page 2 of the results has been sorted by title ascending
\* with nothing loading or outstanding.
C25_Witness ==
  /\ sortBy = "title"
  /\ sortOrder = "asc"
  /\ currentPage = 2
  /\ Len(results) > 1
  /\ ~loading
  /\ inflight = << >>

\* C26: handleSortChange only permutes the held page: for every page and
\* sort spec the results afterwards hold the same publications, each as
\* often as before, and as many of them.
C26_SortPermutes ==
  [][\A by \in SortFields, ord \in SortOrders :
       handleSortChange(by, ord) =>
         /\ SameMembers(results, results')
         /\ Len(results') = Len(results)]_vars

\* C26 witness: a page of three publications, two of them with equal
\* scores, has been sorted once and stands in another order than before.
C26_Witness ==
  /\ probe.kind = "sort"
  /\ probe.step = 1
  /\ Len(results) = MaxSortLen
  /\ \E i, j \in 1..Len(results) : i # j /\ EqualKeys(results[i], results[j], "relevance")
  /\ results # probe.input

\* C27: before the mount the query and debouncedQuery are empty, the page
\* is 1, there are no results and nothing is loading; the mount sets loading
\* and issues at least one request, each for the empty query, page 1 and
\* size 10.
C27_MountLoadsEmptyQuery ==
  /\ [](~mounted => /\ query = "" /\ debouncedQuery = ""
                    /\ currentPage = 1 /\ results = << >>
                    /\ ~loading /\ inflight = << >>)
  /\ [][Mount => /\ loading'
                 /\ Issued # << >>
                 /\ \A i \in 1..Len(Issued) :
                      /\ Issued[i].query = "" /\ Issued[i].page = 1
                      /\ Issued[i].size = 10
                 /\ UNCHANGED <<query, debouncedQuery, currentPage, results>>]_vars

\* C27 witness: just after the mount: loading, the requests for ("", 1, 10)
\* outstanding, nothing typed and no results yet.
C27_Witness ==
  /\ mounted
  /\ loading
  /\ inflight # << >>
  /\ \A i \in 1..Len(inflight) : inflight[i] = Request("", 1)
  /\ query = "" /\ debouncedQuery = ""
  /\ currentPage = 1
  /\ results = << >>
  /\ totalResults = 0
  /\ error = Null

\* C28: the failure of a model-info request leaves result, error and
\* loading of the classification flow, the text, the model choice and the
\* modelInfo held before as they are.
C28_InfoFailureKeepsState ==
  [][\A i \in 1..Len(cls.infoCalls) :
       InfoComplete(i, "failed") =>
         /\ cls'.result = cls.result
         /\ cls'.error = cls.error
         /\ cls'.loading = cls.loading
         /\ cls'.modelInfo = cls.modelInfo
         /\ cls'.text = cls.text
         /\ cls'.modelType = cls.modelType
         /\ cls'.classifyCalls = cls.classifyCalls]_vars

\* C28 witness: the info of naive_bayes is still held although
\* logistic_regression is chosen and no info request is outstanding, while a
\* classification is loading and an earlier result is held.
C28_Witness ==
  /\ cls.modelType = "logistic_regression"
  /\ cls.modelInfo = ModelInfo("naive_bayes")
  /\ cls.infoCalls = << >>
  /\ cls.loading
  /\ cls.result # NullObject
  /\ cls.error = Null

\* C29: loading is true in every state in which an issued search request
\* has not completed yet.
C29_LoadingWhileOutstanding ==
  inflight # << >> => loading

\* C30: in no state is an error held together with non-empty results.
C30_ReadyXorFailed ==
  ~(error # Null /\ results # << >>)

\* C31: when the live query stops changing, debouncedQuery eventually
\* equals it and stays equal, also when the last change was a clear or a
\* quick search.
C31_DebounceCatchesUp ==
  \A q \in KeyValues \cup suggestions :
    <>[](query = q) => <>[](debouncedQuery = q)

\* C31 witness: after text was typed or a quick search was clicked, the
\* timer has fired and debouncedQuery has caught up with the live query.
C31_Witness ==
  /\ mounted
  /\ query = "machine learning"
  /\ debouncedQuery = query
  /\ timers = {}
  /\ emissions = 1

\* C32: the completion of a failed request modifies only error, results
\* and loading: totalResults, totalPages, the page, searchTime, the sort
\* spec, the query texts and the timers are as before.
C32_FailureFrame ==
  [][\A i \in 1..Len(inflight), outcome \in Outcomes \ {"ok"}, d \in Durations :
       Complete(i, outcome, d) =>
         UNCHANGED <<totalResults, totalPages, currentPage, searchTime,
                     sortBy, sortOrder, query, debouncedQuery, timers>>]_vars

\* C32 witness: page 2 of 12 results had been sorted by title when a
\* request failed: the results are empty, and the totals, the page and the
\* sort spec of before are still held.
C32_Witness ==
  /\ error # Null
  /\ results = << >>
  /\ ~loading
  /\ totalResults = Len(Corpus(""))
  /\ totalPages = 2
  /\ currentPage = 2
  /\ sortBy = "title"

\* C33: applying a successful response leaves sortBy and sortOrder as
\* they are and installs the response's results in the server's order.
C33_ResponseKeepsServerOrder ==
  [][\A i \in 1..Len(inflight), d \in Durations :
       Complete(i, "ok", d) =>
         /\ UNCHANGED <<sortBy, sortOrder>>
         /\ results' = SearchResponse(inflight[i].query, inflight[i].page,
                                      inflight[i].size).results]_vars

\* C33 witness: a sort spec other than the initial one is in force and the
\* held results are a page as the server sent it, which is not in the
\* order of that sort spec.
C33_Witness ==
  /\ <<sortBy, sortOrder>> # <<"relevance", "desc">>
  /\ ~loading
  /\ inflight = << >>
  /\ results = SearchResponse(query, currentPage, pageSize).results
  /\ results # << >>
  /\ results \notin sortOutcomes(results, sortBy, sortOrder)

\* C34: when every model-info request succeeds, then in every state with
\* no model-info request outstanding the held modelInfo is the one of the
\* chosen model.
C34_ModelInfoOfCurrentChoice ==
  (cls.mounted /\ cls.infoCalls = << >>) =>
     cls.modelInfo = ModelInfo(cls.modelType)

\* C35: for 1 <= current <= total the page numbers of the list are
\* strictly increasing (so without duplicates), lie in 1..total and include
\* current, and no two ellipsis markers are adjacent.
C35_PagesWellFormed ==
  (probe.kind = "pages" /\ probe.rendered) =>
    LET pages   == probe.pages
        numbers == {i \in 1..Len(pages) : pages[i] # Ellipsis}
    IN  /\ \A i, j \in numbers : i < j => pages[i] < pages[j]
        /\ \A i \in numbers : pages[i] \in 1..probe.total
        /\ \E i \in numbers : pages[i] = probe.current
        /\ \A i \in 1..(Len(pages) - 1) :
             ~(pages[i] = Ellipsis /\ pages[i + 1] = Ellipsis)

\* C35 witness: the form for the last pages was rendered: one ellipsis
\* after page 1, then the last five pages with the current one among them.
C35_Witness ==
  /\ probe.kind = "pages"
  /\ probe.rendered
  /\ probe.total > 7
  /\ probe.current >= probe.total - 3
  /\ probe.current < probe.total
  /\ probe.pages[2] = Ellipsis
  /\ probe.pages[3] = probe.total - 4
  /\ \E i \in 3..Len(probe.pages) : probe.pages[i] = probe.current

====
